---- MODULE Spec2Model ----
(***************************************************************************)
(* Production scheduler of the order-management backend.                   *)
(*                                                                         *)
(*   app/scheduler.py       forward pipelined, hour-granularity simulation *)
(*   app/core/scheduler.py  batch scheduler imported by the endpoints      *)
(*   app/main.py, app/api/v1/orders.py   required input and deadline flags *)
(*                                                                         *)
(* Time is counted in minutes from EpochHour o'clock, so that an instant   *)
(* that is not on an hour boundary can be told from one that is.           *)
(***************************************************************************)
EXTENDS Integers, Sequences, FiniteSets, TLC

\* ---------------------------------------------------------------- bounds
MaxHour == 3
MaxQty == 3
MaxCap == 2
EpochHour == 17

\* timedelta(hours=1), in minutes
OneHour == 60

\* instants of the horizon: on the hour and at half past
MinuteSet == {0, 30}
MaxTick == MaxHour * OneHour
Ticks == {h * OneHour + m : h \in 0..(MaxHour - 1), m \in MinuteSet} \cup {MaxTick}

\* nothing, one unit, and more than one capacity answer
QtySet == {0, 1, MaxQty}
\* a negative answer, zero, and a positive one below the largest quantity
CapSet == {-1, 0, MaxCap}

\* operation names of one scheduling call; NameRank is their string order
OpNames == {"cut", "pack"}
NameRank == [cut |-> 1, pack |-> 2, single |-> 3]

\* The pipeline of the scheduling calls: names are pairwise distinct, and the
\* pipeline order is not the order of the names. The operations list of a call
\* is a prefix of it (the empty one included).
Pipeline == <<"pack", "cut">>
OpLists == {SubSeq(Pipeline, 1, n) : n \in 0..Len(Pipeline)}

\* ---------------------------------------------------------------- helpers
None == [tag |-> "None"]

Min(a, b) == IF a <= b THEN a ELSE b
Max(a, b) == IF a >= b THEN a ELSE b

Range(s) == {s[i] : i \in 1..Len(s)}

RECURSIVE SumSeq(_)
SumSeq(s) == IF s = <<>> THEN 0 ELSE Head(s) + SumSeq(Tail(s))

\* sum of f over the keys of S (f a function whose domain contains S)
RECURSIVE SumOver(_, _)
SumOver(f, S) ==
  IF S = {} THEN 0
  ELSE LET k == CHOOSE x \in S : TRUE IN f[k] + SumOver(f, S \ {k})

\* dt.replace(minute=0, second=0, microsecond=0)
floor_to_hour(t) == t - (t % OneHour)

\* ---------------------------------------------------------------- shifts
DAY_START == 8
DAY_END == 19
NIGHT_START == 20
NIGHT_END == 7

\* dt.time(), in minutes since midnight
time_of(t) == (EpochHour * OneHour + t) % (24 * OneHour)

is_day_shift(t) ==
  DAY_START * OneHour <= time_of(t) /\ time_of(t) < DAY_END * OneHour

\* (the night window closed at 07:00)
is_night_shift_closed(t) ==
  time_of(t) >= NIGHT_START * OneHour \/ time_of(t) <= NIGHT_END * OneHour

is_night_shift(t) ==
  time_of(t) >= NIGHT_START * OneHour \/ time_of(t) < NIGHT_END * OneHour

\* (night decided by is_night_shift, day otherwise)
get_shift_for_hour_bynight(t) == IF is_night_shift(t) THEN "night" ELSE "day"

get_shift_for_hour(t) == IF is_day_shift(t) THEN "day" ELSE "night"

\* ------------------------------------------- app/scheduler.py: the pipeline
VARIABLES
  start,              \* window start (minutes)
  due,                \* window end (minutes)
  qty,                \* required input quantity
  operations,         \* op_names, in pipeline order
  capacity,           \* capacity_lookup_per_op as called so far: <<name, hour>> -> int
  cursor,             \* the hour being simulated
  processed,          \* name -> units processed so far
  finished_by_time,   \* name -> (finish instant -> count)
  allocations_map,    \* name -> sequence of <<hour_start, hour_end, shift, alloc>>
  iterations,         \* hour iterations performed
  pc,                 \* "loop" | "done"
  result              \* the returned dict, None until the call returns

schedVars == <<start, due, qty, operations, capacity, cursor, processed,
               finished_by_time, allocations_map, iterations, pc, result>>

\* the schedule endpoints (app/main.py, app/api/v1/orders.py) around
\* app/core/scheduler.py
VARIABLES
  now,                \* datetime.utcnow() of the request (minutes)
  order,              \* [quantity, estimated_yield, due_datetime]
  ops_info,           \* sequence of [name, pieces_per_hour]
  capacities,         \* the capacities table: ShiftEnum value -> pieces_per_hour or None
  required_input,     \* None until computed
  current_times,      \* core: next start time of every operation
  op_capacities,      \* core: pieces per hour of every operation
  batch_processed,    \* core: `processed`, the units batched so far
  batch_allocations,  \* core: `allocations`
  sched,              \* the dict returned by the core scheduler, None before
  response,           \* the endpoint's answer, None before
  epc                 \* "request" | "batch" | "evaluate" | "done"

endpointVars == <<now, order, ops_info, capacities, required_input, current_times,
                  op_capacities, batch_processed, batch_allocations, sched,
                  response, epc>>

\* the single-operation wrapper schedule_order
VARIABLES
  capacity_lookup     \* its capacity_lookup(shift) argument: shift -> int

wrapperVars == <<capacity_lookup>>

\* a call of the shift classifier
VARIABLES
  dt,                 \* the instant classified (minutes)
  shift_for_hour,     \* what get_shift_for_hour(dt) returned, None before
  classified          \* [is_day_shift, is_night_shift, core] of dt.time() and dt, None before

classifierVars == <<dt, shift_for_hour, classified>>

\* a call of the single-operation allocators
VARIABLES
  fwd,                \* allocate_by_capacity: [cursor, total_allocated, allocations, pc, result]
  bwd                 \* allocate_backward: [cursor_end, total_allocated, allocations, pc, result]

allocVars == <<fwd, bwd>>

\* a call of utils.helpers.calculate_required_input
VARIABLES
  helper_required_input   \* what the helper returned, None before

helperVars == <<helper_required_input>>

vars == <<schedVars, endpointVars, wrapperVars, classifierVars, allocVars, helperVars>>

\* the wrapper's argument while schedule_order is not the entry point
WrapperIdle == capacity_lookup = << >>

\* the classifier variables while it is not the entry point
ClassifierIdle == dt = 0 /\ shift_for_hour = None /\ classified = None

\* the allocator variables while they are not the entry point
AllocIdle == fwd = None /\ bwd = None

\* the helper's result while it is not the entry point
HelperIdle == helper_required_input = None

\* the endpoint variables while the pipeline scheduler is studied on its own
EndpointIdle ==
  /\ now = 0
  /\ order = None
  /\ ops_info = << >>
  /\ capacities = << >>
  /\ required_input = None
  /\ current_times = << >>
  /\ op_capacities = << >>
  /\ batch_processed = 0
  /\ batch_allocations = << >>
  /\ sched = None
  /\ response = None
  /\ epc = "idle"

\* (the filter dropped: everything the previous operation ever finished)
FinishedUpTo_nofilter(fbt, c) == SumOver(fbt, DOMAIN fbt)

\* (the filter narrowed to the units finished exactly at the cursor)
FinishedUpTo_exact(fbt, c) == SumOver(fbt, {t \in DOMAIN fbt : t = c})

\* sum(count for t, count in finished_by_time[prev].items() if t <= cursor)
FinishedUpTo(fbt, c) == SumOver(fbt, {t \in DOMAIN fbt : t <= c})

\* available input of the operation at index idx (1-based) at hour c
Available(q, ops, st, idx, c) ==
  IF idx = 1
  THEN q - st.processed[ops[idx]]
  ELSE Max(0, FinishedUpTo(st.finished_by_time[ops[idx - 1]], c)
              - st.processed[ops[idx]])

\* (the capacity ignored)
Alloc_nocap(cap, available) == available

\* alloc = min(cap, available)
Alloc(cap, available) == Min(cap, available)

\* processed[name] += alloc
AddProcessed(old, alloc) == old + alloc

\* finished_by_time[name].setdefault(finish_time, 0); ... += alloc
AddFinished(fbt, finish_time, alloc) ==
  IF finish_time \in DOMAIN fbt
  THEN [fbt EXCEPT ![finish_time] = @ + alloc]
  ELSE fbt @@ (finish_time :> alloc)

\* body of the for loop for one operation
OpStep(q, ops, st, idx, c, cap) ==
  LET name == ops[idx]
      alloc == Alloc(cap, Available(q, ops, st, idx, c))
  IN IF alloc > 0
     THEN [processed |-> [st.processed EXCEPT ![name] = AddProcessed(@, alloc)],
           finished_by_time |->
             [st.finished_by_time EXCEPT ![name] = AddFinished(@, c + OneHour, alloc)],
           allocations_map |->
             [st.allocations_map EXCEPT
                ![name] = Append(@, <<c, c + OneHour, get_shift_for_hour(c), alloc>>)]]
     ELSE st

\* for idx, name in enumerate(op_names): ... (operations idx..N of one hour)
RECURSIVE OpsFrom(_, _, _, _, _, _)
OpsFrom(q, ops, st, idx, c, capf) ==
  IF idx > Len(ops) THEN st
  ELSE OpsFrom(q, ops, OpStep(q, ops, st, idx, c, capf[<<ops[idx], c>>]),
               idx + 1, c, capf)

\* any_progress of one hour: some operation allocated
any_progress(before, after) == before # after

\* (the cursor advanced only when the hour made progress)
NextCursor_ifprogress(c, progress) == IF progress THEN c + OneHour ELSE c

\* cursor = cursor + timedelta(hours=1), whatever any_progress is
NextCursor(c, progress) == c + OneHour

\* the iteration count, which never passes the hours of the horizon
CountIteration(n) == IF n <= MaxHour THEN n + 1 ELSE n

\* state before the loop
InitState(ops) ==
  [processed |-> [n \in Range(ops) |-> 0],
   finished_by_time |-> [n \in Range(ops) |-> << >>],
   allocations_map |-> [n \in Range(ops) |-> << >>]]

\* flat list in op_names order
RECURSIVE Flatten(_, _, _)
Flatten(ops, amap, idx) ==
  IF idx > Len(ops) THEN << >>
  ELSE [k \in 1..Len(amap[ops[idx]]) |->
          LET a == amap[ops[idx]][k]
          IN <<a[1], a[2], a[3], ops[idx], a[4]>>]
       \o Flatten(ops, amap, idx + 1)

\* (the operation name dropped from the key)
sort_key_startonly(x) == <<x[1], 0>>

\* key=lambda x: (x[0], x[3])
sort_key(x) == <<x[1], NameRank[x[4]]>>

TupleLess(k1, k2) == k1[1] < k2[1] \/ (k1[1] = k2[1] /\ k1[2] < k2[2])

\* flat.sort(key=...): list.sort is stable, so the element at index i comes
\* after the elements of smaller key and after the elements of equal key that
\* stood before it
SortFlat(s) ==
  LET before(j, i) ==
        \/ TupleLess(sort_key(s[j]), sort_key(s[i]))
        \/ (~TupleLess(sort_key(s[i]), sort_key(s[j])) /\ j < i)
      position(i) == 1 + Cardinality({j \in 1..Len(s) : before(j, i)})
  IN [p \in 1..Len(s) |-> s[CHOOSE i \in 1..Len(s) : position(i) = p]]

last_op_name(ops) == IF ops # << >> THEN ops[Len(ops)] ELSE "None"

allocated_on_last(ops, st) ==
  IF ops # << >> THEN st.processed[ops[Len(ops)]] ELSE 0

\* (the comparison made non-strict)
UnderCapacity_le(allocated, q) == allocated <= q

\* if allocated_on_last < qty: note = ...
UnderCapacity(allocated, q) == allocated < q

MakeNote(ops, allocated, q) ==
  IF UnderCapacity(allocated, q)
  THEN [tag |-> "under-capacity", op |-> last_op_name(ops),
        requested |-> q, allocated |-> allocated]
  ELSE None

\* the returned dict
MakeResult(q, ops, st) ==
  [total_allocated |-> allocated_on_last(ops, st),
   allocations |-> SortFlat(Flatten(ops, st.allocations_map, 1)),
   note |-> MakeNote(ops, allocated_on_last(ops, st), q)]

SchedState ==
  [processed |-> processed, finished_by_time |-> finished_by_time,
   allocations_map |-> allocations_map]

Init ==
  /\ start \in Ticks
  /\ due \in Ticks
  /\ qty \in QtySet
  /\ operations \in OpLists
  /\ capacity = << >>
  /\ cursor = floor_to_hour(start)
  /\ processed = InitState(operations).processed
  /\ finished_by_time = InitState(operations).finished_by_time
  /\ allocations_map = InitState(operations).allocations_map
  /\ iterations = 0
  /\ pc = "loop"
  /\ result = None
  /\ EndpointIdle
  /\ WrapperIdle
  /\ ClassifierIdle
  /\ AllocIdle
  /\ HelperIdle

\* one iteration of `while cursor < due`; the capacity function answers for
\* every operation at this hour
HourStep ==
  /\ pc = "loop"
  /\ cursor < due
  /\ \E caps \in [Range(operations) -> CapSet] :
       LET capf == capacity @@ [p \in {<<n, cursor>> : n \in Range(operations)} |-> caps[p[1]]]
           st == OpsFrom(qty, operations, SchedState, 1, cursor, capf)
       IN /\ capacity' = capf
          /\ processed' = st.processed
          /\ finished_by_time' = st.finished_by_time
          /\ allocations_map' = st.allocations_map
          /\ cursor' = NextCursor(cursor, any_progress(SchedState, st))
  /\ iterations' = CountIteration(iterations)
  /\ UNCHANGED <<start, due, qty, operations, pc, result>>
  /\ UNCHANGED endpointVars
  /\ UNCHANGED wrapperVars
  /\ UNCHANGED classifierVars
  /\ UNCHANGED allocVars
  /\ UNCHANGED helperVars

\* the loop exits: flatten, sort, total, note, return
Return ==
  /\ pc = "loop"
  /\ ~(cursor < due)
  /\ result' = MakeResult(qty, operations, SchedState)
  /\ pc' = "done"
  /\ UNCHANGED <<start, due, qty, operations, capacity, cursor, processed,
                 finished_by_time, allocations_map, iterations>>
  /\ UNCHANGED endpointVars
  /\ UNCHANGED wrapperVars
  /\ UNCHANGED classifierVars
  /\ UNCHANGED allocVars
  /\ UNCHANGED helperVars

Next == HourStep \/ Return

Spec == Init /\ [][Next]_vars

\* the call is a sequential computation: it keeps running until it returns
FairSpec == Spec /\ WF_vars(Next)

\* -------------------------------- app/core/scheduler.py and the endpoints
Some(x) == [tag |-> "Some", v |-> x]

\* ceil(a / b) for a >= 0, b > 0
CeilDiv(a, b) == (a + b - 1) \div b

batch_size == 100
default_pieces_per_hour == 10

QuantitySet == {21, 100, 150}
\* the quantities handed to utils.helpers.calculate_required_input
HelperQuantitySet == QuantitySet \cup {1, 500, 1000}
\* estimated_yield in tenths of a percent: absent, 0, negative, 50.0, 70.0,
\* 98.5 and 100.0
YieldSet == {None, Some(0), Some(-100), Some(500), Some(700), Some(985), Some(1000)}
PphSet == {None, Some(-1), Some(0), Some(10), Some(1000)}
CapacityTables == {<< >>, [day |-> 100, night |-> 60]}

OpsInfoLists ==
  {<< >>}
  \cup {<<[name |-> n, pieces_per_hour |-> p]>> : n \in OpNames, p \in PphSet}
  \cup {<<[name |-> x[1], pieces_per_hour |-> x[3]],
          [name |-> x[2], pieces_per_hour |-> x[4]]>> :
          x \in {y \in OpNames \X OpNames \X PphSet \X PphSet : y[1] # y[2]}}

\* dt.hour
hour_of(t) == (EpochHour + (t \div OneHour)) % 24

\* app.core.scheduler.get_shift_for_hour: "baiban" is the day label, "yeban" the night one
core_get_shift_for_hour(t) ==
  IF 8 <= hour_of(t) /\ hour_of(t) < 20 THEN "baiban" ELSE "yeban"

\* crud.get_capacity_by_shift: the first record of that shift, or None
get_capacity_by_shift(table, shift) ==
  IF shift \in DOMAIN table THEN Some(table[shift]) ELSE None

\* next((o for o in ops_info if o["name"] == op_name), None)
RECURSIVE matched_op(_, _)
matched_op(ops, op_name) ==
  IF ops = << >> THEN None
  ELSE IF Head(ops).name = op_name THEN Some(Head(ops))
  ELSE matched_op(Tail(ops), op_name)

\* a Python number or None used as a condition
Truthy(x) == x # None /\ x.v # 0

\* the endpoints' capacity_lookup_per_op(op_name, dt)
capacity_lookup_per_op(ops, table, op_name, t) ==
  LET matched == matched_op(ops, op_name)
      cap == get_capacity_by_shift(table, core_get_shift_for_hour(t))
  IN IF matched # None /\ Truthy(matched.v.pieces_per_hour)
     THEN matched.v.pieces_per_hour.v
     ELSE IF cap # None THEN cap.v ELSE 0

\* start = (now + timedelta(hours=1)).replace(minute=0, second=0, microsecond=0)
window_start(n) == floor_to_hour(n + OneHour)

\* ---- binary64 arithmetic of quantity / (estimated_yield / 100.0)
\* A 54-bit natural number is <<hi, lo>> = hi * 2^27 + lo, and a positive
\* double is [m, e] = m * 2^e with 2^52 <= m < 2^53.
Limb == 134217728
BigZero == <<0, 0>>
Two52 == <<33554432, 0>>
Two53 == <<67108864, 0>>

BigGeq(x, y) == x[1] > y[1] \/ (x[1] = y[1] /\ x[2] >= y[2])

BigSub(x, y) ==
  IF x[2] >= y[2] THEN <<x[1] - y[1], x[2] - y[2]>>
  ELSE <<x[1] - y[1] - 1, x[2] + Limb - y[2]>>

\* 2 * x + b for a bit b
BigShiftIn(x, b) == <<2 * x[1] + ((2 * x[2]) \div Limb), ((2 * x[2]) % Limb) + b>>

BigHalf(x) == <<x[1] \div 2, (x[2] \div 2) + (x[1] % 2) * (Limb \div 2)>>

BigInc(x) == IF x[2] + 1 = Limb THEN <<x[1] + 1, 0>> ELSE <<x[1], x[2] + 1>>

\* f applied n times to x, every intermediate result a value
RECURSIVE Iterate(_, _, _)
Iterate(f(_), x, n) ==
  IF n = 0 THEN x
  ELSE IF n = 1 THEN f(x)
  ELSE CHOOSE z \in {Iterate(f, y, n - (n \div 2)) : y \in {Iterate(f, x, n \div 2)}} : TRUE

\* number of bits of an int n > 0
RECURSIVE BitLength(_)
BitLength(n) == IF n = 0 THEN 0 ELSE 1 + BitLength(n \div 2)

\* float(n) of an int 0 < n < 2^27: exact
float_of_int(n) ==
  LET double(m) == BigShiftIn(m, 0)
  IN [m |-> Iterate(double, <<0, n>>, 53 - BitLength(n)), e |-> BitLength(n) - 53]

\* one more quotient bit of s.rem / d
DivStep(s, d) ==
  LET r == BigShiftIn(s.rem, 0)
  IN IF BigGeq(r, d)
     THEN [rem |-> BigSub(r, d), quo |-> BigShiftIn(s.quo, 1)]
     ELSE [rem |-> r, quo |-> BigShiftIn(s.quo, 0)]

\* n more quotient bits of rem / d
DivBits(rem, d, quo, n) ==
  LET step(s) == DivStep(s, d)
  IN Iterate(step, [rem |-> rem, quo |-> quo], n)

\* a / b of two positive doubles, rounded to nearest, ties to even
float_div_of(a, b) ==
  LET ge == BigGeq(a.m, b.m)
      n0 == IF ge THEN a.m ELSE BigShiftIn(a.m, 0)
      e0 == IF ge THEN a.e - b.e - 52 ELSE a.e - b.e - 53
      q53 == DivBits(BigSub(n0, b.m), b.m, <<0, 1>>, 52)
      g == DivStep(q53, b.m)
      up == g.quo[2] % 2 = 1 /\ (g.rem # BigZero \/ q53.quo[2] % 2 = 1)
      m1 == IF up THEN BigInc(q53.quo) ELSE q53.quo
  IN IF m1 = Two53 THEN [m |-> Two52, e |-> e0 + 1] ELSE [m |-> m1, e |-> e0]

\* the operands are values before the division starts
float_div(a, b) ==
  CHOOSE q \in {float_div_of(x, y) : x \in {a}, y \in {b}} : TRUE

\* m * 2^(-k), and whether a set bit was shifted out
ShiftRight(m, k) ==
  LET halve(s) == [m |-> BigHalf(s.m), dropped |-> s.dropped \/ s.m[2] % 2 = 1]
  IN Iterate(halve, [m |-> m, dropped |-> FALSE], k)

\* int(math.ceil(x)) of a positive double below 2^27
float_ceil(x) ==
  CHOOSE n \in {s.m[2] + (IF s.dropped THEN 1 ELSE 0) :
                 s \in {ShiftRight(v.m, 0 - v.e) : v \in {x}}} : TRUE

\* a yield given in tenths of a percent, as the double the request carries
\* (the double nearest to tenths / 10)
float_of_tenths(t) == float_div(float_of_int(t), float_of_int(10))

\* int(math.ceil(quantity / (estimated_yield / 100.0)))
float_required_input(quantity, tenths) ==
  float_ceil(float_div(float_of_int(quantity),
                       float_div(float_of_tenths(tenths), float_of_int(100))))

\* the float quotient of every order of the model, tabulated once
required_input_of ==
  [p \in HelperQuantitySet \X {y \in YieldSet : Truthy(y) /\ y.v > 0} |->
     float_required_input(p[1], p[2].v)] @@ << >>

\* if order.estimated_yield and order.estimated_yield > 0:
\*     required_input = int(math.ceil(order.quantity / (order.estimated_yield / 100.0)))
\* else: required_input = order.quantity
compute_required_input(quantity, estimated_yield) ==
  IF Truthy(estimated_yield) /\ estimated_yield.v > 0
  THEN required_input_of[<<quantity, estimated_yield>>]
  ELSE quantity

\* core: pieces_per_hour of one operation, looked up once at `start`
core_op_capacity(ops, table, op_name, s) ==
  LET pieces_per_hour == capacity_lookup_per_op(ops, table, op_name, s)
  IN IF pieces_per_hour <= 0 THEN default_pieces_per_hour ELSE pieces_per_hour

\* core: the dict returned for an empty operations list
core_empty_result(s) ==
  [allocations |-> << >>, total_allocated |-> 0, meets_due |-> TRUE,
   expected_completion |-> Some(s), meets_due_estimate |-> TRUE]

\* core: total_allocated = sum(item[4] for item in allocations)
core_total_allocated(allocs) == SumSeq([k \in 1..Len(allocs) |-> allocs[k][5]])

\* core: the dict returned after the batch loop
core_result(allocs, times, s, d) ==
  LET final_completion_time == IF times # << >> THEN times[Len(times)] ELSE s
  IN [allocations |-> allocs,
      total_allocated |-> core_total_allocated(allocs),
      meets_due |-> final_completion_time <= d,
      expected_completion |->
        IF final_completion_time <= d THEN Some(final_completion_time) ELSE None,
      meets_due_estimate |-> final_completion_time <= d]

\* (the records of every operation taken)
last_alloc_end_any(allocs, op_name) ==
  LET ends == {allocs[k][2] : k \in 1..Len(allocs)}
  IN IF ends = {} THEN None ELSE Some(CHOOSE e \in ends : \A f \in ends : f <= e)

\* max(a[1] for a in allocations if a[3] == op_name), None when there is none
last_alloc_end(allocs, op_name) ==
  LET ends == {allocs[k][2] : k \in {j \in 1..Len(allocs) : allocs[j][4] = op_name}}
  IN IF ends = {} THEN None ELSE Some(CHOOSE e \in ends : \A f \in ends : f <= e)

\* (the comparison made strict)
MeetsDue_strict(total_allocated, required) == total_allocated > required

\* meets_due = total_allocated >= required_input
MeetsDue(total_allocated, required) == total_allocated >= required

\* the deadline flags computed by the endpoints from a schedule dict
evaluate(sch, required, d, ops, s) ==
  LET total_allocated == sch.total_allocated
      meets_due == MeetsDue(total_allocated, required)
      remaining_qty == required - total_allocated
      last_name == IF ops # << >> THEN ops[Len(ops)].name ELSE "None"
      matched == matched_op(ops, last_name)
      last_op_pph == IF matched = None THEN None ELSE matched.v.pieces_per_hour
      last_end == last_alloc_end(sch.allocations, last_name)
      base == IF last_end # None THEN last_end.v ELSE s
      expected == base + CeilDiv(remaining_qty, last_op_pph.v) * OneHour
      estimate == ~meets_due /\ Truthy(last_op_pph) /\ last_op_pph.v > 0
  IN [total_allocated |-> total_allocated,
      required_input |-> required,
      meets_due |-> meets_due,
      expected_completion |-> IF estimate THEN Some(expected) ELSE None,
      meets_due_estimate |-> IF estimate THEN expected <= d ELSE meets_due,
      note |-> IF "note" \in DOMAIN sch THEN sch.note ELSE None]

\* the pipeline variables while the endpoints are studied
SchedIdle ==
  /\ start = 0
  /\ due = 0
  /\ qty = 0
  /\ operations = << >>
  /\ capacity = << >>
  /\ cursor = 0
  /\ processed = << >>
  /\ finished_by_time = << >>
  /\ allocations_map = << >>
  /\ iterations = 0
  /\ pc = "idle"
  /\ result = None

EndpointInit ==
  /\ SchedIdle
  /\ WrapperIdle
  /\ ClassifierIdle
  /\ AllocIdle
  /\ HelperIdle
  /\ now \in {0, 30, OneHour}
  /\ order \in [quantity : QuantitySet, estimated_yield : YieldSet, due_datetime : Ticks]
  /\ ops_info \in OpsInfoLists
  /\ capacities \in CapacityTables
  /\ required_input = None
  /\ current_times = << >>
  /\ op_capacities = << >>
  /\ batch_processed = 0
  /\ batch_allocations = << >>
  /\ sched = None
  /\ response = None
  /\ epc = "request"

\* the handler up to the batch loop of the core scheduler: required input,
\* then either the early return for no operations or the capacities
Request ==
  /\ epc = "request"
  /\ required_input' = compute_required_input(order.quantity, order.estimated_yield)
  /\ IF ops_info = << >>
     THEN /\ sched' = core_empty_result(window_start(now))
          /\ epc' = "evaluate"
          /\ UNCHANGED <<current_times, op_capacities>>
     ELSE /\ current_times' = [i \in 1..Len(ops_info) |-> window_start(now)]
          /\ op_capacities' =
               [i \in 1..Len(ops_info) |->
                  core_op_capacity(ops_info, capacities, ops_info[i].name,
                                   window_start(now))]
          /\ epc' = "batch"
          /\ UNCHANGED sched
  /\ UNCHANGED <<now, order, ops_info, capacities, batch_processed,
                 batch_allocations, response>>
  /\ UNCHANGED schedVars
  /\ UNCHANGED wrapperVars
  /\ UNCHANGED classifierVars
  /\ UNCHANGED allocVars
  /\ UNCHANGED helperVars

\* one iteration of `while processed < required_input`
CoreBatch ==
  /\ epc = "batch"
  /\ batch_processed < required_input
  /\ LET batch == Min(batch_size, required_input - batch_processed)
         end_time(i) ==
           current_times[i] + CeilDiv(batch, op_capacities[i]) * OneHour
     IN /\ batch_allocations' = batch_allocations \o
             [i \in 1..Len(ops_info) |->
                <<current_times[i], end_time(i),
                  core_get_shift_for_hour(current_times[i]), ops_info[i].name, batch>>]
        /\ current_times' = [i \in 1..Len(ops_info) |-> end_time(i)]
        /\ batch_processed' = batch_processed + batch
  /\ UNCHANGED <<now, order, ops_info, capacities, required_input, op_capacities,
                 sched, response, epc>>
  /\ UNCHANGED schedVars
  /\ UNCHANGED wrapperVars
  /\ UNCHANGED classifierVars
  /\ UNCHANGED allocVars
  /\ UNCHANGED helperVars

\* the batch loop exits and the core scheduler returns
CoreReturn ==
  /\ epc = "batch"
  /\ ~(batch_processed < required_input)
  /\ sched' = core_result(batch_allocations, current_times, window_start(now),
                          order.due_datetime)
  /\ epc' = "evaluate"
  /\ UNCHANGED <<now, order, ops_info, capacities, required_input, current_times,
                 op_capacities, batch_processed, batch_allocations, response>>
  /\ UNCHANGED schedVars
  /\ UNCHANGED wrapperVars
  /\ UNCHANGED classifierVars
  /\ UNCHANGED allocVars
  /\ UNCHANGED helperVars

\* the deadline flags and the response
Evaluate ==
  /\ epc = "evaluate"
  /\ response' = evaluate(sched, required_input, order.due_datetime, ops_info,
                          window_start(now))
  /\ epc' = "done"
  /\ UNCHANGED <<now, order, ops_info, capacities, required_input, current_times,
                 op_capacities, batch_processed, batch_allocations, sched>>
  /\ UNCHANGED schedVars
  /\ UNCHANGED wrapperVars
  /\ UNCHANGED classifierVars
  /\ UNCHANGED allocVars
  /\ UNCHANGED helperVars

EndpointNext == Request \/ CoreBatch \/ CoreReturn \/ Evaluate

EndpointSpec == EndpointInit /\ [][EndpointNext]_vars

\* --------------------------------------------- the loop as one computation
\* while cursor < due: ... , from hour c with accumulators st
RECURSIVE RunLoop(_, _, _, _, _, _)
RunLoop(q, ops, st, c, d, capf) ==
  IF c < d
  THEN LET st2 == OpsFrom(q, ops, st, 1, c, capf)
       IN RunLoop(q, ops, st2, NextCursor(c, any_progress(st, st2)), d, capf)
  ELSE st

\* total_allocated of schedule_order_operations(s, d, _, _, q, ops, capf)
total_allocated_of(s, d, q, ops, capf) ==
  allocated_on_last(ops, RunLoop(q, ops, InitState(ops), floor_to_hour(s), d, capf))

\* ------------------------------------------------------------ properties
\* quantities of the records of one operation
StartedBy(recs, H) ==
  SumSeq([k \in 1..Len(recs) |-> IF recs[k][1] <= H THEN recs[k][4] ELSE 0])

FinishedBy(recs, H) ==
  SumSeq([k \in 1..Len(recs) |-> IF recs[k][2] <= H THEN recs[k][4] ELSE 0])

HourStarts == {h * OneHour : h \in 0..(MaxHour + 1)}

\* C1: after every hour step the first operation has processed at most qty,
\* and every later operation has processed, through the hour starting at H,
\* at most what the operation before it finished in hours ending by H.
C1_Precedence ==
  /\ operations # << >> => processed[operations[1]] <= qty
  /\ \A i \in 2..Len(operations) : \A H \in HourStarts :
       /\ StartedBy(allocations_map[operations[i]], H)
            <= FinishedBy(allocations_map[operations[i - 1]], H)
       /\ processed[operations[i]]
            = StartedBy(allocations_map[operations[i]], MaxTick + OneHour)

C1_Witness ==
  /\ Len(operations) = 2
  /\ processed[operations[1]] = qty
  /\ processed[operations[2]] > 0
  /\ processed[operations[2]] < processed[operations[1]]

\* C2: every returned record allocates at most what the capacity function
\* answered for its operation at its hour_start.
C2_CapacityBound ==
  pc = "done" =>
    \A k \in 1..Len(result.allocations) :
      LET r == result.allocations[k]
      IN r[5] <= capacity[<<r[4], r[1]>>]

C2_Witness ==
  /\ pc = "done"
  /\ \E k \in 1..Len(result.allocations) :
       LET r == result.allocations[k] IN r[5] = capacity[<<r[4], r[1]>>]
  /\ \E k \in 1..Len(result.allocations) :
       LET r == result.allocations[k] IN r[5] < capacity[<<r[4], r[1]>>]
  /\ \E p \in DOMAIN capacity : capacity[p] < 0

\* C3: an empty operations list returns no allocations, total 0 and no note,
\* whatever qty, start and due are.
C3_EmptyOperations ==
  (pc = "done" /\ operations = << >>) =>
    result = [total_allocated |-> 0, allocations |-> << >>, note |-> None]

\* C4: with operations, the note is set exactly when total_allocated < qty,
\* and then names the last operation, qty and the last operation's total.
C4_Note ==
  (pc = "done" /\ operations # << >>) =>
    LET last == operations[Len(operations)]
        onlast == SumSeq([k \in 1..Len(result.allocations) |->
                    IF result.allocations[k][4] = last
                    THEN result.allocations[k][5] ELSE 0])
    IN /\ result.total_allocated = onlast
       /\ IF result.total_allocated < qty
          THEN result.note = [tag |-> "under-capacity", op |-> last,
                              requested |-> qty, allocated |-> onlast]
          ELSE result.note = None

C4_Witness ==
  /\ pc = "done"
  /\ Len(operations) = 2
  /\ result.note # None
  /\ result.note.allocated > 0

\* C5: the call always returns, and every hour iteration moves the cursor
\* forward, progress or not.
C5_Terminates ==
  /\ <>(pc = "done")
  /\ [][(pc = "loop" /\ pc' = "loop") => cursor' > cursor]_vars

C5_Witness ==
  /\ pc = "done"
  /\ operations # << >>
  /\ qty > 0
  /\ iterations = MaxHour
  /\ \A p \in DOMAIN capacity : capacity[p] <= 0
  /\ result.allocations = << >>

\* C6: due <= start means no hour iteration, no record, total 0, and a note
\* exactly when qty > 0.
C6_EmptyWindow ==
  (pc = "done" /\ due <= start) =>
    /\ iterations = 0
    /\ result.allocations = << >>
    /\ result.total_allocated = 0
    /\ (result.note # None <=> qty > 0)

\* C7: a window inside the scheduled one never allocates more on the last
\* operation, the capacity function being the same.
C7_WindowMonotone ==
  pc = "done" =>
    \A s1 \in {t \in Ticks : t >= start} : \A d1 \in {t \in Ticks : t <= due} :
      total_allocated_of(s1, d1, qty, operations, capacity) <= result.total_allocated

C7_Witness ==
  /\ pc = "done"
  /\ Len(operations) = 2
  /\ \E s1 \in {t \in Ticks : t > start} :
       /\ total_allocated_of(s1, due, qty, operations, capacity) > 0
       /\ total_allocated_of(s1, due, qty, operations, capacity) < result.total_allocated

\* C8: the returned list is strictly ascending by (hour_start, operation name).
C8_StrictlySorted ==
  pc = "done" =>
    \A k \in 1..(Len(result.allocations) - 1) :
      LET r1 == result.allocations[k]
          r2 == result.allocations[k + 1]
      IN \/ r1[1] < r2[1]
         \/ (r1[1] = r2[1] /\ NameRank[r1[4]] < NameRank[r2[4]])

C8_Witness ==
  /\ pc = "done"
  /\ operations = <<"pack", "cut">>
  /\ \E k \in 1..(Len(result.allocations) - 1) :
       /\ result.allocations[k][1] = result.allocations[k + 1][1]
       /\ result.allocations[k][4] = "cut"

\* C9: the total_allocated the endpoints compare with required_input is what
\* the last operation processed, not a sum over the operations, so it never
\* exceeds required_input.
C9_TotalIsLastOperation ==
  (epc = "done" /\ ops_info # << >>) =>
    LET last == ops_info[Len(ops_info)].name
        onlast == SumSeq([k \in 1..Len(sched.allocations) |->
                    IF sched.allocations[k][4] = last
                    THEN sched.allocations[k][5] ELSE 0])
    IN /\ response.total_allocated = onlast
       /\ response.total_allocated <= required_input

\* C10: when the last operation's capacity over the hours of the window is
\* below the required input and the first operation's capacity covers it, the
\* first operation allocates everything in the first hour, meets_due is false
\* and the note names the last operation.
C10_UnderCapacityScenario ==
  (/\ epc = "done"
   /\ Len(ops_info) = 2
   /\ order.due_datetime > window_start(now)
   /\ order.due_datetime % OneHour = 0
   /\ Truthy(ops_info[1].pieces_per_hour)
   /\ Truthy(ops_info[2].pieces_per_hour)
   /\ ops_info[1].pieces_per_hour.v >= required_input
   /\ ops_info[2].pieces_per_hour.v > 0
   /\ ops_info[2].pieces_per_hour.v
        * ((order.due_datetime - window_start(now)) \div OneHour) < required_input)
  => /\ \E k \in 1..Len(sched.allocations) :
          sched.allocations[k] =
            <<window_start(now), window_start(now) + OneHour,
              sched.allocations[k][3], ops_info[1].name, required_input>>
     /\ response.meets_due = FALSE
     /\ response.note # None
     /\ response.note.op = ops_info[2].name

\* The under-capacity scenario on the pipeline scheduler itself: with an
\* hour-aligned start, a first operation whose first hour covers qty and a
\* last operation whose positive capacity over the window is below qty, the
\* first operation allocates qty in the first hour, the total stays below qty
\* and the note names the last operation.
PipelineUnderCapacityScenario ==
  (/\ pc = "done"
   /\ Len(operations) = 2
   /\ start % OneHour = 0
   /\ due > start
   /\ qty > 0
   /\ capacity[<<operations[1], start>>] >= qty
   /\ SumSeq([h \in 1..((due - start + OneHour - 1) \div OneHour) |->
        Max(0, capacity[<<operations[2], start + (h - 1) * OneHour>>])]) < qty)
  => /\ result.total_allocated < qty
     /\ result.note # None
     /\ result.note.op = operations[2]
     /\ \E k \in 1..Len(result.allocations) :
          /\ result.allocations[k][1] = start
          /\ result.allocations[k][4] = operations[1]
          /\ result.allocations[k][5] = qty

\* hour starts of the window [s, d)
WindowHours(s, d) == {h \in HourStarts : s <= h /\ h < d}

\* quantity of the records of one operation in a returned list
AllocatedOn(allocs, name) ==
  SumSeq([k \in 1..Len(allocs) |-> IF allocs[k][4] = name THEN allocs[k][5] ELSE 0])

\* C11: when every operation's capacity covers the required input in every
\* hour of an hour-aligned window of at least N hours, every operation
\* allocates exactly the required input inside the window, total_allocated is
\* the required input, there is no note and meets_due is true.
C11_FullCapacityScenario ==
  (/\ epc = "done"
   /\ ops_info # << >>
   /\ order.due_datetime % OneHour = 0
   /\ order.due_datetime - window_start(now) >= Len(ops_info) * OneHour
   /\ \A i \in 1..Len(ops_info) :
        \A h \in WindowHours(window_start(now), order.due_datetime) :
          capacity_lookup_per_op(ops_info, capacities, ops_info[i].name, h)
            >= required_input)
  => /\ \A i \in 1..Len(ops_info) :
          AllocatedOn(sched.allocations, ops_info[i].name) = required_input
     /\ \A k \in 1..Len(sched.allocations) :
          /\ window_start(now) <= sched.allocations[k][1]
          /\ sched.allocations[k][2] <= order.due_datetime
     /\ response.total_allocated = required_input
     /\ response.note = None
     /\ response.meets_due = TRUE

\* The full-capacity scenario on the pipeline scheduler itself: every
\* operation processes qty, the total is qty and there is no note.
PipelineFullCapacityScenario ==
  (/\ pc = "done"
   /\ operations # << >>
   /\ start % OneHour = 0
   /\ due % OneHour = 0
   /\ due - start >= Len(operations) * OneHour
   /\ \A i \in 1..Len(operations) : \A h \in WindowHours(start, due) :
        capacity[<<operations[i], h>>] >= qty)
  => /\ \A i \in 1..Len(operations) :
          /\ processed[operations[i]] = qty
          /\ AllocatedOn(result.allocations, operations[i]) = qty
     /\ \A k \in 1..Len(result.allocations) :
          start <= result.allocations[k][1] /\ result.allocations[k][2] <= due
     /\ result.total_allocated = qty
     /\ result.note = None

\* ------------------------------------------ app/scheduler.py: schedule_order
\* (the shift of the hour ignored: the day capacity at every hour)
wrapper_capacity_lookup_per_op_day(lookup, op_name, t) == lookup["day"]

\* the closure capacity_lookup_per_op(op_name, dt) of schedule_order
wrapper_capacity_lookup_per_op(lookup, op_name, t) == lookup[get_shift_for_hour(t)]

\* ops = [{"name": "single"}]
wrapper_ops == <<"single">>

ShiftSet == {"day", "night"}

\* schedule_order(start, due, _, _, qty, capacity_lookup) up to the hour loop
\* of schedule_order_operations
WrapperInit ==
  /\ start \in Ticks
  /\ due \in Ticks
  /\ qty \in QtySet
  /\ capacity_lookup \in [ShiftSet -> CapSet]
  /\ operations = wrapper_ops
  /\ capacity = << >>
  /\ cursor = floor_to_hour(start)
  /\ processed = InitState(wrapper_ops).processed
  /\ finished_by_time = InitState(wrapper_ops).finished_by_time
  /\ allocations_map = InitState(wrapper_ops).allocations_map
  /\ iterations = 0
  /\ pc = "loop"
  /\ result = None
  /\ EndpointIdle
  /\ ClassifierIdle
  /\ AllocIdle
  /\ HelperIdle

\* one iteration of `while cursor < due`, the capacity answered by the closure
WrapperHourStep ==
  /\ pc = "loop"
  /\ cursor < due
  /\ LET capf == capacity @@
                   [p \in {<<n, cursor>> : n \in Range(operations)} |->
                      wrapper_capacity_lookup_per_op(capacity_lookup, p[1], cursor)]
         st == OpsFrom(qty, operations, SchedState, 1, cursor, capf)
     IN /\ capacity' = capf
        /\ processed' = st.processed
        /\ finished_by_time' = st.finished_by_time
        /\ allocations_map' = st.allocations_map
        /\ cursor' = NextCursor(cursor, any_progress(SchedState, st))
  /\ iterations' = CountIteration(iterations)
  /\ UNCHANGED <<start, due, qty, operations, pc, result>>
  /\ UNCHANGED endpointVars
  /\ UNCHANGED wrapperVars
  /\ UNCHANGED classifierVars
  /\ UNCHANGED allocVars
  /\ UNCHANGED helperVars

WrapperNext == WrapperHourStep \/ Return

WrapperSpec == WrapperInit /\ [][WrapperNext]_vars

\* the window's summed hourly capacity, negative answers counting for nothing
WindowCapacity(s, d, lookup) ==
  SumOver([h \in WindowHours(s, d) |->
             Max(0, lookup[IF is_day_shift(h) THEN "day" ELSE "night"])],
          WindowHours(s, d))

\* C12: the single-operation wrapper on an hour-aligned window allocates
\* min(qty, sum over the window's hours of max(0, capacity_lookup(shift))),
\* hence never more than the window's summed capacity, and every record
\* carries the shift of its own hour_start and stays within that shift's
\* capacity.
C12_WrapperTotal ==
  (pc = "done" /\ operations = wrapper_ops
     /\ start % OneHour = 0 /\ due % OneHour = 0) =>
    /\ result.total_allocated = Min(qty, WindowCapacity(start, due, capacity_lookup))
    /\ result.total_allocated <= WindowCapacity(start, due, capacity_lookup)
    /\ \A k \in 1..Len(result.allocations) :
         LET r == result.allocations[k]
         IN /\ r[3] = (IF is_day_shift(r[1]) THEN "day" ELSE "night")
            /\ r[4] = "single"
            /\ r[5] <= capacity_lookup[r[3]]

C12_Witness ==
  /\ pc = "done"
  /\ operations = wrapper_ops
  /\ start % OneHour = 0
  /\ due % OneHour = 0
  /\ capacity_lookup["night"] > 0
  /\ capacity_lookup["day"] <= 0
  /\ \E h \in WindowHours(start, due) : is_day_shift(h)
  /\ result.total_allocated > 0
  /\ result.total_allocated < qty

\* C13: the required input is ceil(quantity / (estimated_yield / 100)) when
\* estimated_yield is present and positive, and quantity otherwise; a yield of
\* 100 gives back the quantity.
C13_RequiredInput ==
  epc \in {"batch", "evaluate", "done"} =>
    LET y == order.estimated_yield
    IN /\ IF y # None /\ y.v > 0
          THEN required_input = CeilDiv(order.quantity * 1000, y.v)
          ELSE required_input = order.quantity
       /\ y = Some(1000) => required_input = order.quantity

\* The examples of the yield adjustment as the code computes them: (500, 98.5)
\* gives 508, (100, 50) gives 200, and a yield of 100 gives the quantity.
RequiredInputExamples ==
  /\ float_required_input(500, 985) = 508
  /\ float_required_input(100, 500) = 200
  /\ \A q \in QuantitySet : float_required_input(q, 1000) = q

\* C14: meets_due is total_allocated >= required_input, and when it is true
\* meets_due_estimate is true and expected_completion is None.
C14_MeetsDue ==
  epc = "done" =>
    /\ response.total_allocated = sched.total_allocated
    /\ response.required_input = required_input
    /\ response.meets_due = (sched.total_allocated >= required_input)
    /\ response.meets_due =>
         (response.meets_due_estimate /\ response.expected_completion = None)

C14_Witness ==
  /\ epc = "done"
  /\ Len(ops_info) = 1
  /\ response.total_allocated = required_input
  /\ response.meets_due
  /\ sched.expected_completion # None

\* -------------------------------- the deadline evaluation as a function
\* A schedule dict as the evaluation reads it: k hourly records of the last
\* operation from the window start on, a allocated in each, the total being
\* theirs; with two operations the first one has a record ending later.
EvalSched(ops, s, k, a) ==
  LET last == ops[Len(ops)].name
      lastRecs == [i \in 1..k |->
                     <<s + (i - 1) * OneHour, s + i * OneHour,
                       core_get_shift_for_hour(s + (i - 1) * OneHour), last, a>>]
      firstRecs == IF Len(ops) = 2
                   THEN <<<<s + MaxHour * OneHour, s + (MaxHour + 1) * OneHour,
                            core_get_shift_for_hour(s + MaxHour * OneHour),
                            ops[1].name, a>>>>
                   ELSE << >>
  IN [total_allocated |-> k * a, allocations |-> lastRecs \o firstRecs, note |-> None]

EvalScheds(ops, s) ==
  IF ops = << >>
  THEN {[total_allocated |-> 0, allocations |-> << >>, note |-> None]}
  ELSE {EvalSched(ops, s, k, a) : k \in 0..2, a \in {1, 5}}

RequiredSet == {1, 11, 21}

EvalInit ==
  /\ SchedIdle
  /\ WrapperIdle
  /\ ClassifierIdle
  /\ AllocIdle
  /\ HelperIdle
  /\ now = 0
  /\ required_input \in RequiredSet
  /\ order \in [quantity : {required_input}, estimated_yield : {None},
                due_datetime : Ticks]
  /\ ops_info \in OpsInfoLists
  /\ capacities = << >>
  /\ current_times = << >>
  /\ op_capacities = << >>
  /\ batch_processed = 0
  /\ batch_allocations = << >>
  /\ sched \in EvalScheds(ops_info, window_start(now))
  /\ response = None
  /\ epc = "evaluate"

EvalNext == Evaluate

EvalSpec == EvalInit /\ [][EvalNext]_vars

\* C15: when meets_due is false and the last operation's pieces per hour is
\* present and positive, expected_completion is the latest hour_end of the
\* last operation's records (the window start if it has none) plus
\* ceil((required_input - total_allocated) / pieces per hour) hours, and
\* meets_due_estimate says whether that is at or before due; when it is
\* absent, zero or negative, expected_completion is None and
\* meets_due_estimate is false.
C15_ExpectedCompletion ==
  (epc = "done" /\ ~response.meets_due) =>
    LET last_op_pph == IF ops_info = << >> THEN None
                       ELSE ops_info[Len(ops_info)].pieces_per_hour
        lastEnds == {sched.allocations[k][2] :
                       k \in {j \in 1..Len(sched.allocations) :
                                sched.allocations[j][4] = ops_info[Len(ops_info)].name}}
        base == IF lastEnds = {} THEN window_start(now)
                ELSE CHOOSE e \in lastEnds : \A f \in lastEnds : f <= e
    IN IF last_op_pph # None /\ last_op_pph.v > 0
       THEN LET hours_needed ==
                  CeilDiv(required_input - sched.total_allocated, last_op_pph.v)
            IN /\ response.expected_completion = Some(base + hours_needed * OneHour)
               /\ response.meets_due_estimate
                    = (base + hours_needed * OneHour <= order.due_datetime)
       ELSE /\ response.expected_completion = None
            /\ response.meets_due_estimate = FALSE

C15_Witness ==
  /\ epc = "done"
  /\ ~response.meets_due
  /\ Len(ops_info) = 2
  /\ sched.total_allocated > 0
  /\ response.expected_completion # None
  /\ response.expected_completion.v = window_start(now) + 2 * OneHour
  /\ response.meets_due_estimate

C15_WitnessNoThroughput ==
  /\ epc = "done"
  /\ ~response.meets_due
  /\ ops_info # << >>
  /\ ops_info[Len(ops_info)].pieces_per_hour = Some(-1)
  /\ response.expected_completion = None

\* latest end and earliest start of the records of one operation
LatestEnd(allocs, name) ==
  LET ends == {allocs[k][2] : k \in {j \in 1..Len(allocs) : allocs[j][4] = name}}
  IN CHOOSE e \in ends : \A f \in ends : f <= e

EarliestStart(allocs, name) ==
  LET starts == {allocs[k][1] : k \in {j \in 1..Len(allocs) : allocs[j][4] = name}}
  IN CHOOSE e \in starts : \A f \in starts : e <= f

HasRecords(allocs, name) == \E k \in 1..Len(allocs) : allocs[k][4] = name

\* the operations op1, op2 of a returned list do not overlap in time
NoOverlap(allocs, op1, op2) ==
  (HasRecords(allocs, op1) /\ HasRecords(allocs, op2)) =>
    LatestEnd(allocs, op1) <= EarliestStart(allocs, op2)

\* C16: with two consecutive operations op1 then op2, the latest end among
\* op1's records is at or before the earliest start among op2's records, in
\* the schedule the endpoints compute and in the pipeline scheduler's.
C16_NoOverlap ==
  /\ (epc = "done" /\ Len(ops_info) = 2) =>
       NoOverlap(sched.allocations, ops_info[1].name, ops_info[2].name)
  /\ (pc = "done" /\ Len(operations) = 2) =>
       NoOverlap(result.allocations, operations[1], operations[2])

\* ------------------------------------ app/scheduler.py: get_shift_for_hour
\* every hour of a day, on the hour, at half past and at the last minute
DayInstants == {h * OneHour + m : h \in 0..23, m \in {0, 30, 59}}

ClassifyInit ==
  /\ SchedIdle
  /\ EndpointIdle
  /\ WrapperIdle
  /\ AllocIdle
  /\ HelperIdle
  /\ dt \in DayInstants
  /\ shift_for_hour = None
  /\ classified = None

\* shift_for_hour = get_shift_for_hour(dt), with the two predicates of
\* dt.time() and the answer of app.core.scheduler.get_shift_for_hour(dt)
Classify ==
  /\ shift_for_hour = None
  /\ shift_for_hour' = Some(get_shift_for_hour(dt))
  /\ classified' = Some([is_day_shift |-> is_day_shift(dt),
                         is_night_shift |-> is_night_shift(dt),
                         core |-> core_get_shift_for_hour(dt)])
  /\ UNCHANGED dt
  /\ UNCHANGED schedVars
  /\ UNCHANGED endpointVars
  /\ UNCHANGED wrapperVars
  /\ UNCHANGED allocVars
  /\ UNCHANGED helperVars

ClassifyNext == Classify

ClassifySpec == ClassifyInit /\ [][ClassifyNext]_vars

\* minutes since midnight of the instant classified
TimeOfDay == (EpochHour * OneHour + dt) % (24 * OneHour)

\* C17: get_shift_for_hour answers every instant with exactly one shift: day
\* when 08:00 <= t < 19:00, night at every other time of day, 19:00-20:00 and
\* 07:00-08:00 included.
C17_ShiftForHour ==
  shift_for_hour # None =>
    /\ shift_for_hour.v \in {"day", "night"}
    /\ shift_for_hour.v = "day" <=> (480 <= TimeOfDay /\ TimeOfDay < 1140)
    /\ (1140 <= TimeOfDay /\ TimeOfDay < 1200) => shift_for_hour.v = "night"
    /\ (420 <= TimeOfDay /\ TimeOfDay < 480) => shift_for_hour.v = "night"

C17_Witness ==
  /\ shift_for_hour = Some("night")
  /\ TimeOfDay = 1170

\* C18: the capacity resolver of the endpoints answers with the operation's
\* override only when it is present and positive; for an absent, zero or
\* negative override it answers with the record of the shift of the instant,
\* or 0 when there is no such record.
C18_CapacityResolver ==
  epc = "batch" =>
    \A i \in 1..Len(ops_info) :
      LET override == ops_info[i].pieces_per_hour
          answer == capacity_lookup_per_op(ops_info, capacities, ops_info[i].name,
                                           window_start(now))
          record == get_capacity_by_shift(capacities,
                                          core_get_shift_for_hour(window_start(now)))
      IN IF override # None /\ override.v > 0
         THEN answer = override.v
         ELSE answer = (IF record # None THEN record.v ELSE 0)

\* C19: for start < due the hour loop runs exactly ceil((due - start) / 1h)
\* iterations, also when start is not on an hour boundary.
C19_IterationCount ==
  (pc = "done" /\ start < due) =>
    iterations = CeilDiv(due - start, OneHour)

\* The iteration count for a start on an hour boundary.
AlignedIterationCount ==
  (pc = "done" /\ start < due /\ start % OneHour = 0) =>
    iterations = CeilDiv(due - start, OneHour)

\* C20: in the batch scheduler every batch reaches operation i no earlier
\* than operation i-1 has finished it: the record of operation i for a batch
\* starts at or after the end of the record of operation i-1 for that batch.
C20_BatchPrecedence ==
  ops_info # << >> =>
    LET N == Len(ops_info)
    IN \A b \in 1..(Len(batch_allocations) \div N) : \A i \in 2..N :
         batch_allocations[(b - 1) * N + i][1]
           >= batch_allocations[(b - 1) * N + i - 1][2]

\* ------------------------- app/scheduler.py: is_day_shift, is_night_shift
\* the hour between the day window and the night window, 19:00 to 20:00
EveningGap == 1140 <= TimeOfDay /\ TimeOfDay < 1200

\* the hour between the night window and the day window, 07:00 to 08:00
MorningGap == 420 <= TimeOfDay /\ TimeOfDay < 480

\* C21 as stated: is_day_shift and is_night_shift are both false only at
\* times of day within 19:00-20:00, and exactly one of them is true at every
\* other time of day.
C21_OnlyEveningGap ==
  classified # None =>
    /\ (~classified.v.is_day_shift /\ ~classified.v.is_night_shift) => EveningGap
    /\ ~EveningGap => (classified.v.is_day_shift # classified.v.is_night_shift)

\* C21, amended: is_day_shift and is_night_shift are both false exactly at
\* the times of day within 19:00-20:00 or within 07:00-08:00, and exactly one
\* of them is true at every other time of day.
C21_BothGaps ==
  classified # None =>
    /\ (EveningGap \/ MorningGap) =>
         (~classified.v.is_day_shift /\ ~classified.v.is_night_shift)
    /\ ~(EveningGap \/ MorningGap) =>
         (classified.v.is_day_shift # classified.v.is_night_shift)

\* 07:00 sharp, in neither window
C21_Witness ==
  /\ classified # None
  /\ TimeOfDay = 420
  /\ ~classified.v.is_day_shift
  /\ ~classified.v.is_night_shift

\* ---------------- app/scheduler.py and app/core/scheduler.py: the two classifiers
\* C27: the two shift classifiers agree on every hour of the day:
\* app.scheduler.get_shift_for_hour answers day exactly when
\* app.core.scheduler.get_shift_for_hour answers the day label.
C27_ClassifiersAgree ==
  classified # None =>
    (shift_for_hour.v = "day" <=> classified.v.core = "baiban")

\* ------------- app/scheduler.py: allocate_by_capacity, allocate_backward
\* (the hourly capacity taken whole, whatever is left to allocate)
forward_alloc_uncapped(cap, remaining) == cap

\* allocate_by_capacity: alloc = min(cap, qty - total_allocated)
forward_alloc(cap, remaining) == Min(cap, remaining)

\* (an hour recorded also when nothing is allocated in it)
forward_recorded_any(alloc) == alloc >= 0

\* allocate_by_capacity: if alloc > 0
forward_recorded(alloc) == alloc > 0

\* allocate_by_capacity: while cursor < end and total_allocated < qty
forward_loop(f, d, q) == f.cursor < d /\ f.total_allocated < q

\* allocate_backward: alloc = min(cap, qty - total_allocated)
backward_alloc(cap, remaining) == Min(cap, remaining)

\* (the hour that starts at the window start left out)
backward_loop_short(b, s, q) == b.cursor_end - OneHour > s /\ b.total_allocated < q

\* allocate_backward: while cursor_end > start and total_allocated < qty
backward_loop(b, s, q) == b.cursor_end > s /\ b.total_allocated < q

\* the capacity_lookup_op(hour_start) handed to allocate_backward: the
\* capacity of the shift of that hour
capacity_lookup_op(lookup, hour_start) == lookup[get_shift_for_hour(hour_start)]

\* allocations.reverse()
Reverse(s) == [k \in 1..Len(s) |-> s[Len(s) + 1 - k]]

\* schedule_order, allocate_by_capacity and allocate_backward called with the
\* same start, end, qty and capacity_lookup
AllocInit ==
  /\ start \in Ticks
  /\ due \in Ticks
  /\ qty \in QtySet
  /\ capacity_lookup \in [ShiftSet -> CapSet]
  /\ operations = wrapper_ops
  /\ capacity = << >>
  /\ cursor = floor_to_hour(start)
  /\ processed = InitState(wrapper_ops).processed
  /\ finished_by_time = InitState(wrapper_ops).finished_by_time
  /\ allocations_map = InitState(wrapper_ops).allocations_map
  /\ iterations = 0
  /\ pc = "loop"
  /\ result = None
  /\ fwd = [cursor |-> floor_to_hour(start), total_allocated |-> 0,
            allocations |-> << >>, pc |-> "loop", result |-> None]
  /\ bwd = [cursor_end |-> floor_to_hour(due), total_allocated |-> 0,
            allocations |-> << >>, pc |-> "loop", result |-> None]
  /\ EndpointIdle
  /\ ClassifierIdle
  /\ HelperIdle

\* one iteration of the loop of allocate_by_capacity
ForwardStep ==
  /\ fwd.pc = "loop"
  /\ forward_loop(fwd, due, qty)
  /\ LET hour_end == fwd.cursor + OneHour
         shift == get_shift_for_hour(fwd.cursor)
         cap == capacity_lookup[shift]
         alloc == forward_alloc(cap, qty - fwd.total_allocated)
     IN fwd' = [fwd EXCEPT
                  !.allocations = IF forward_recorded(alloc)
                                  THEN Append(@, <<fwd.cursor, hour_end, shift, alloc>>)
                                  ELSE @,
                  !.total_allocated = IF forward_recorded(alloc) THEN @ + alloc ELSE @,
                  !.cursor = hour_end]
  /\ UNCHANGED bwd
  /\ UNCHANGED schedVars
  /\ UNCHANGED endpointVars
  /\ UNCHANGED wrapperVars
  /\ UNCHANGED classifierVars
  /\ UNCHANGED helperVars

\* return total_allocated, allocations
ForwardReturn ==
  /\ fwd.pc = "loop"
  /\ ~forward_loop(fwd, due, qty)
  /\ fwd' = [fwd EXCEPT
               !.pc = "done",
               !.result = Some([total_allocated |-> fwd.total_allocated,
                                allocations |-> fwd.allocations])]
  /\ UNCHANGED bwd
  /\ UNCHANGED schedVars
  /\ UNCHANGED endpointVars
  /\ UNCHANGED wrapperVars
  /\ UNCHANGED classifierVars
  /\ UNCHANGED helperVars

\* one iteration of the loop of allocate_backward
BackwardStep ==
  /\ bwd.pc = "loop"
  /\ backward_loop(bwd, start, qty)
  /\ LET hour_start == bwd.cursor_end - OneHour
         shift == get_shift_for_hour(hour_start)
         cap == capacity_lookup_op(capacity_lookup, hour_start)
         alloc == backward_alloc(cap, qty - bwd.total_allocated)
     IN bwd' = [bwd EXCEPT
                  !.allocations = IF alloc > 0
                                  THEN Append(@, <<hour_start, bwd.cursor_end, shift, alloc>>)
                                  ELSE @,
                  !.total_allocated = IF alloc > 0 THEN @ + alloc ELSE @,
                  !.cursor_end = hour_start]
  /\ UNCHANGED fwd
  /\ UNCHANGED schedVars
  /\ UNCHANGED endpointVars
  /\ UNCHANGED wrapperVars
  /\ UNCHANGED classifierVars
  /\ UNCHANGED helperVars

\* allocations.reverse(); return total_allocated, allocations
BackwardReturn ==
  /\ bwd.pc = "loop"
  /\ ~backward_loop(bwd, start, qty)
  /\ bwd' = [bwd EXCEPT
               !.pc = "done",
               !.result = Some([total_allocated |-> bwd.total_allocated,
                                allocations |-> Reverse(bwd.allocations)])]
  /\ UNCHANGED fwd
  /\ UNCHANGED schedVars
  /\ UNCHANGED endpointVars
  /\ UNCHANGED wrapperVars
  /\ UNCHANGED classifierVars
  /\ UNCHANGED helperVars

AllocNext ==
  \/ WrapperHourStep
  \/ Return
  \/ ForwardStep
  \/ ForwardReturn
  \/ BackwardStep
  \/ BackwardReturn

AllocSpec == AllocInit /\ [][AllocNext]_vars

\* the hours allocate_by_capacity can visit: from the floored start, before end
WalkHours(s, d) == {h \in HourStarts : floor_to_hour(s) <= h /\ h < d}

\* quantities of the first n records of a list of <<hour_start, hour_end, shift, alloc>>
AllocatedBefore(allocs, n) == SumSeq([k \in 1..(n - 1) |-> allocs[k][4]])

\* C22: allocate_by_capacity walks the hours from floor_to_hour(start) that
\* begin before end; every record is one of these hours, in increasing order,
\* with the shift of the hour and the positive amount min(capacity of that
\* shift, qty - what the earlier records allocated); allocated_total is the
\* sum of the recorded amounts, never more than qty, it is min(qty, the
\* positive capacity of the hours walked), and the answer is (0, []) when the
\* capacity is zero throughout.
C22_AllocateByCapacity ==
  fwd # None /\ fwd.pc = "done" =>
    LET r == fwd.result.v
        n == Len(r.allocations)
    IN /\ r.total_allocated = AllocatedBefore(r.allocations, n + 1)
       /\ r.total_allocated <= qty
       /\ r.total_allocated =
            Min(qty, SumOver([h \in WalkHours(start, due) |->
                                Max(0, capacity_lookup[get_shift_for_hour(h)])],
                             WalkHours(start, due)))
       /\ \A k \in 1..n :
            LET a == r.allocations[k]
            IN /\ a[1] \in WalkHours(start, due)
               /\ a[2] = a[1] + OneHour
               /\ a[3] = get_shift_for_hour(a[1])
               /\ a[4] > 0
               /\ a[4] = Min(capacity_lookup[a[3]],
                             qty - AllocatedBefore(r.allocations, k))
               /\ k > 1 => r.allocations[k - 1][1] < a[1]
       /\ (\A sh \in ShiftSet : capacity_lookup[sh] = 0) =>
            (r.total_allocated = 0 /\ r.allocations = << >>)

\* two hours recorded, the second one cut to what was left of qty
C22_Witness ==
  /\ fwd # None /\ fwd.pc = "done"
  /\ Len(fwd.result.v.allocations) = 2
  /\ fwd.result.v.allocations[2][4] < capacity_lookup[fwd.result.v.allocations[2][3]]
  /\ fwd.result.v.total_allocated = qty

\* nothing allocated because the capacity is zero in both shifts
C22_WitnessZeroCapacity ==
  /\ fwd # None /\ fwd.pc = "done"
  /\ start < due /\ qty > 0
  /\ \A sh \in ShiftSet : capacity_lookup[sh] = 0
  /\ fwd.result.v = [total_allocated |-> 0, allocations |-> << >>]

\* C23: every record allocate_backward returns lies inside the window,
\* hour_start >= start and hour_end <= end, for any start and end, a start
\* inside an hour included, and the records are in chronological order.
C23_BackwardInsideWindow ==
  bwd # None /\ bwd.pc = "done" =>
    LET allocs == bwd.result.v.allocations
    IN \A k \in 1..Len(allocs) :
         /\ allocs[k][1] >= start
         /\ allocs[k][2] <= due
         /\ k > 1 => allocs[k - 1][1] < allocs[k][1]

\* The records of allocate_backward for a start on an hour boundary.
BackwardInsideAlignedWindow ==
  (bwd # None /\ bwd.pc = "done" /\ start % OneHour = 0) =>
    LET allocs == bwd.result.v.allocations
    IN \A k \in 1..Len(allocs) :
         /\ allocs[k][1] >= start
         /\ allocs[k][2] <= due
         /\ k > 1 => allocs[k - 1][1] < allocs[k][1]

\* C28: schedule_order and allocate_by_capacity, called with the same start,
\* end, qty and capacity_lookup, return the same total and the same sequence
\* of records once the name "single" is dropped from the wrapper's records.
C28_WrapperEquivalent ==
  (fwd # None /\ fwd.pc = "done" /\ pc = "done") =>
    /\ result.total_allocated = fwd.result.v.total_allocated
    /\ [k \in 1..Len(result.allocations) |->
          LET a == result.allocations[k] IN <<a[1], a[2], a[3], a[5]>>]
         = fwd.result.v.allocations

\* both returned, from a start inside an hour, two records each, with an hour
\* of no capacity in the window
C28_Witness ==
  /\ fwd # None /\ fwd.pc = "done" /\ pc = "done"
  /\ start % OneHour # 0
  /\ Len(result.allocations) = 2
  /\ Len(fwd.result.v.allocations) = 2
  /\ \E sh \in ShiftSet : capacity_lookup[sh] <= 0

\* C29: on an hour-aligned window start < end, with the same capacity for
\* every hour, allocate_by_capacity and allocate_backward return the same
\* allocated_total: min(qty, sum of the positive hourly capacities of the
\* window).
C29_SameTotal ==
  (fwd # None /\ fwd.pc = "done" /\ bwd.pc = "done"
     /\ start % OneHour = 0 /\ due % OneHour = 0 /\ start < due) =>
    /\ fwd.result.v.total_allocated = bwd.result.v.total_allocated
    /\ fwd.result.v.total_allocated = Min(qty, WindowCapacity(start, due, capacity_lookup))

\* both returned on an aligned window, qty reached, by different records
C29_Witness ==
  /\ fwd # None /\ fwd.pc = "done" /\ bwd.pc = "done"
  /\ start % OneHour = 0 /\ due % OneHour = 0 /\ start < due
  /\ bwd.result.v.total_allocated = qty
  /\ bwd.result.v.allocations # fwd.result.v.allocations

\* both returned on an aligned window whose capacity is short of qty
C29_WitnessShortCapacity ==
  /\ fwd # None /\ fwd.pc = "done" /\ bwd.pc = "done"
  /\ start % OneHour = 0 /\ due % OneHour = 0 /\ start < due
  /\ bwd.result.v.total_allocated > 0
  /\ bwd.result.v.total_allocated < qty

\* ------------------- app/scheduler.py: the pipeline's records and the window
\* No record of the operation at pipeline index i (counted from 0) starts
\* before floor_to_hour(start) + i hours.
PipelineStageDelay ==
  \A idx \in 1..Len(operations) :
    \A k \in 1..Len(allocations_map[operations[idx]]) :
      allocations_map[operations[idx]][k][1]
        >= floor_to_hour(start) + (idx - 1) * OneHour

\* C24: the operation at pipeline index i (counted from 0) has no record that
\* starts before floor_to_hour(start) + i hours, so in a window shorter than
\* N hours an order of N operations completes nothing on its last operation.
C24_StageDelay ==
  /\ PipelineStageDelay
  /\ (pc = "done" /\ operations # << >>
        /\ due - start < Len(operations) * OneHour) =>
       result.total_allocated = 0

\* On a window with start and due on the hour, shorter than N hours, an order
\* of N operations completes nothing on its last operation.
AlignedShortWindow ==
  (pc = "done" /\ operations # << >>
     /\ start % OneHour = 0 /\ due % OneHour = 0
     /\ due - start < Len(operations) * OneHour) =>
    result.total_allocated = 0

\* C25: every record schedule_order_operations returns lies inside the
\* window, start <= hour_start and hour_end <= due, for any start and due,
\* on an hour boundary or not.
C25_RecordsInsideWindow ==
  pc = "done" =>
    \A k \in 1..Len(result.allocations) :
      /\ start <= result.allocations[k][1]
      /\ result.allocations[k][2] <= due

\* The records for a start and a due on an hour boundary.
RecordsInsideAlignedWindow ==
  (pc = "done" /\ start % OneHour = 0 /\ due % OneHour = 0) =>
    \A k \in 1..Len(result.allocations) :
      /\ start <= result.allocations[k][1]
      /\ result.allocations[k][2] <= due

\* ------- the deadline evaluation of the endpoints over the pipeline schedule
\* positive per-hour throughputs: one unit, and the largest capacity
ThroughputSet == {Some(1), Some(MaxCap)}

\* ops_info lists in pipeline order, every operation with its own throughput
PipelineOpsInfo ==
  {[i \in 1..n |-> [name |-> Pipeline[i], pieces_per_hour |-> p[i]]] :
     n \in 0..Len(Pipeline), p \in [1..Len(Pipeline) -> ThroughputSet]}

\* the endpoint up to its call
\* schedule_order_operations(start, due, _, _, required_input, ops_info,
\* capacity_lookup_per_op), the scheduler being app.scheduler's pipeline
PipelineEvalInit ==
  /\ now \in {0, 30}
  /\ required_input \in QtySet
  /\ order \in [quantity : {required_input}, estimated_yield : {None},
                due_datetime : Ticks]
  /\ ops_info \in PipelineOpsInfo
  /\ capacities = << >>
  /\ current_times = << >>
  /\ op_capacities = << >>
  /\ batch_processed = 0
  /\ batch_allocations = << >>
  /\ sched = None
  /\ response = None
  /\ epc = "schedule"
  /\ start = window_start(now)
  /\ due = order.due_datetime
  /\ qty = required_input
  /\ operations = [i \in 1..Len(ops_info) |-> ops_info[i].name]
  /\ capacity = << >>
  /\ cursor = floor_to_hour(start)
  /\ processed = InitState(operations).processed
  /\ finished_by_time = InitState(operations).finished_by_time
  /\ allocations_map = InitState(operations).allocations_map
  /\ iterations = 0
  /\ pc = "loop"
  /\ result = None
  /\ WrapperIdle
  /\ ClassifierIdle
  /\ AllocIdle
  /\ HelperIdle

\* one iteration of `while cursor < due`, the capacity answered by the
\* endpoint's closure capacity_lookup_per_op
PipelineHourStep ==
  /\ pc = "loop"
  /\ cursor < due
  /\ LET capf == capacity @@
                   [p \in {<<n, cursor>> : n \in Range(operations)} |->
                      capacity_lookup_per_op(ops_info, capacities, p[1], cursor)]
         st == OpsFrom(qty, operations, SchedState, 1, cursor, capf)
     IN /\ capacity' = capf
        /\ processed' = st.processed
        /\ finished_by_time' = st.finished_by_time
        /\ allocations_map' = st.allocations_map
        /\ cursor' = NextCursor(cursor, any_progress(SchedState, st))
  /\ iterations' = CountIteration(iterations)
  /\ UNCHANGED <<start, due, qty, operations, pc, result>>
  /\ UNCHANGED endpointVars
  /\ UNCHANGED wrapperVars
  /\ UNCHANGED classifierVars
  /\ UNCHANGED allocVars
  /\ UNCHANGED helperVars

\* the deadline flags computed from the dict the pipeline returned
PipelineEvaluate ==
  /\ pc = "done"
  /\ epc = "schedule"
  /\ sched' = result
  /\ response' = evaluate(result, required_input, due, ops_info, start)
  /\ epc' = "done"
  /\ UNCHANGED <<now, order, ops_info, capacities, required_input, current_times,
                 op_capacities, batch_processed, batch_allocations>>
  /\ UNCHANGED schedVars
  /\ UNCHANGED wrapperVars
  /\ UNCHANGED classifierVars
  /\ UNCHANGED allocVars
  /\ UNCHANGED helperVars

PipelineEvalNext == PipelineHourStep \/ Return \/ PipelineEvaluate

PipelineEvalSpec == PipelineEvalInit /\ [][PipelineEvalNext]_vars

SingleOperationEstimate ==
  (pc = "done" /\ response # None /\ Len(ops_info) = 1) =>
    (~response.meets_due => ~response.meets_due_estimate)

\* ----------------------- app/utils/helpers.py: calculate_required_input
\* int(x) of a positive double below 2^27: the fraction dropped
float_trunc(x) ==
  CHOOSE n \in {s.m[2] : s \in {ShiftRight(v.m, 0 - v.e) : v \in {x}}} : TRUE

\* int(quantity / (yield_rate / 100.0))
float_helper_input(quantity, tenths) ==
  float_trunc(float_div(float_of_int(quantity),
                        float_div(float_of_tenths(tenths), float_of_int(100))))

\* the helper's quotient of every call of the model, tabulated once
helper_input_of ==
  [p \in HelperQuantitySet \X {y \in YieldSet : Truthy(y) /\ y.v > 0} |->
     float_helper_input(p[1], p[2].v)] @@ << >>

\* if yield_rate and yield_rate > 0: return int(quantity / (yield_rate / 100.0))
\* return quantity
calculate_required_input(quantity, yield_rate) ==
  IF Truthy(yield_rate) /\ yield_rate.v > 0
  THEN helper_input_of[<<quantity, yield_rate>>]
  ELSE quantity

\* one quantity and one yield, handed to the helper and to the endpoints'
\* computation
HelperInit ==
  /\ SchedIdle
  /\ WrapperIdle
  /\ ClassifierIdle
  /\ AllocIdle
  /\ now = 0
  /\ order \in [quantity : HelperQuantitySet, estimated_yield : YieldSet,
                due_datetime : {0}]
  /\ ops_info = << >>
  /\ capacities = << >>
  /\ required_input = None
  /\ current_times = << >>
  /\ op_capacities = << >>
  /\ batch_processed = 0
  /\ batch_allocations = << >>
  /\ sched = None
  /\ response = None
  /\ epc = "compute"
  /\ helper_required_input = None

\* calculate_required_input(order.quantity, order.estimated_yield)
CallHelper ==
  /\ helper_required_input = None
  /\ helper_required_input' =
       Some(calculate_required_input(order.quantity, order.estimated_yield))
  /\ UNCHANGED endpointVars
  /\ UNCHANGED schedVars
  /\ UNCHANGED wrapperVars
  /\ UNCHANGED classifierVars
  /\ UNCHANGED allocVars

\* the endpoints' required_input of the same order
ComputeRequiredInput ==
  /\ epc = "compute"
  /\ required_input' = compute_required_input(order.quantity, order.estimated_yield)
  /\ epc' = "done"
  /\ UNCHANGED <<now, order, ops_info, capacities, current_times, op_capacities,
                 batch_processed, batch_allocations, sched, response>>
  /\ UNCHANGED schedVars
  /\ UNCHANGED wrapperVars
  /\ UNCHANGED classifierVars
  /\ UNCHANGED allocVars
  /\ UNCHANGED helperVars

HelperNext == CallHelper \/ ComputeRequiredInput

HelperSpec == HelperInit /\ [][HelperNext]_vars

\* C30: calculate_required_input returns what the endpoints compute as
\* required_input, for every quantity and every yield.
C30_HelperAgrees ==
  (helper_required_input # None /\ epc = "done") =>
    helper_required_input.v = required_input

\* The helper and the endpoints on a yield that is absent, zero, negative or
\* 100.
HelperAgreesWithoutRounding ==
  (helper_required_input # None /\ epc = "done"
     /\ order.estimated_yield \in {None, Some(0), Some(-100), Some(1000)}) =>
    helper_required_input.v = required_input

\* The helper's answer is never above the endpoints' and at most one below.
HelperAtMostOneBelow ==
  (helper_required_input # None /\ epc = "done") =>
    /\ helper_required_input.v <= required_input
    /\ required_input <= helper_required_input.v + 1

====
